---- MODULE Spec2Model ----
(***************************************************************************)
(* A model of the browser-use web API gateway:                             *)
(*   src/src/api/security/api_key.py  APIKeyManager and the get_api_key    *)
(*                                    dependency                           *)
(*   src/src/api/api_service.py       the key endpoints, the task store,   *)
(*                                    create_task and execute_task         *)
(*                                                                         *)
(* All handlers are `async def` and run on one asyncio event loop, so a    *)
(* piece of code between two awaits of an external coroutine is one atomic *)
(* step.  The methods of APIKeyManager contain no await at all.            *)
(*                                                                         *)
(* Time is an integer number of days; datetime.utcnow() is a read of a     *)
(* clock that never runs backwards.  The operators take every read a       *)
(* method makes as a separate argument; the actions let any time pass      *)
(* before a call and none during it (a call has no suspension point), so   *)
(* they pass the same read for all of them.                                *)
(*                                                                         *)
(* Optional values are sequences of length at most one: None is << >>.     *)
(***************************************************************************)
EXTENDS Integers, Sequences, FiniteSets, TLC

\* ---------------------------------------------------------------- bounds
MaxKeys == 2
MaxTime == 1
MaxUse == 2
MaxTasks == 2

\* ------------------------------------------------------ program constants
DefaultDays == 30

None == << >>
Some(x) == << x >>

\* The tokens secrets.token_urlsafe(32) can draw ("bua_" + the draw).
Tokens == 1..MaxKeys
\* What a caller can present: a token that was issued, or one that was not
\* (yet).
Presented == Tokens
Times == 0..MaxTime
\* The values of expires_in_days a caller passes.
Days == {None, Some(-1), Some(0)}

VARIABLES
    api_keys,   \* APIKeyManager.api_keys: token -> key data
    now,        \* the latest value datetime.utcnow() has returned
    last,       \* history: the call made by the latest step
    accepted,   \* history: token -> validate_key calls that returned True
    rotations,  \* history: the << old, new >> pairs of successful rotations
    tasks_store,\* api_service.tasks_store: task id -> task record
    units       \* task id -> the execute_task coroutine scheduled for it

keyVars == << api_keys, accepted, rotations >>
taskVars == << tasks_store, units >>
vars == << api_keys, now, last, accepted, rotations, tasks_store, units >>

\* ------------------------------------------------------- APIKeyManager
\* Each method is an operator from the store before the call (and the
\* clock reads and random draw the call makes) to the store after it and
\* the returned value.

generate_key(keys, key, expires_in_days, t1, t2) ==
    LET days == IF expires_in_days = None THEN DefaultDays ELSE expires_in_days[1]
        expiration == t1 + days
    IN  [api_keys |-> (key :> [created_at |-> t2,
                               expires_at |-> expiration,
                               is_active |-> TRUE,
                               last_used |-> None,
                               usage_count |-> 0]) @@ keys,
         ret |-> key]

\* validate_key with the expiry test off by one (>= for >).
validate_key_strict(keys, api_key, t1, t2) ==
    IF api_key \notin DOMAIN keys
    THEN [api_keys |-> keys, ret |-> FALSE]
    ELSE LET key_data == keys[api_key] IN
         IF ~key_data.is_active
         THEN [api_keys |-> keys, ret |-> FALSE]
         ELSE IF t1 >= key_data.expires_at
         THEN [api_keys |-> [keys EXCEPT ![api_key].is_active = FALSE],
               ret |-> FALSE]
         ELSE [api_keys |-> [keys EXCEPT ![api_key].last_used = Some(t2),
                                         ![api_key].usage_count = @ + 1],
               ret |-> TRUE]

\* validate_key with the usage statistics updated before the expiry test.
validate_key_eager(keys, api_key, t1, t2) ==
    IF api_key \notin DOMAIN keys
    THEN [api_keys |-> keys, ret |-> FALSE]
    ELSE LET key_data == keys[api_key] IN
         IF ~key_data.is_active
         THEN [api_keys |-> keys, ret |-> FALSE]
         ELSE IF t1 > key_data.expires_at
         THEN [api_keys |-> [keys EXCEPT ![api_key].is_active = FALSE,
                                         ![api_key].last_used = Some(t2),
                                         ![api_key].usage_count = @ + 1],
               ret |-> FALSE]
         ELSE [api_keys |-> [keys EXCEPT ![api_key].last_used = Some(t2),
                                         ![api_key].usage_count = @ + 1],
               ret |-> TRUE]

validate_key(keys, api_key, t1, t2) ==
    IF api_key \notin DOMAIN keys
    THEN [api_keys |-> keys, ret |-> FALSE]
    ELSE LET key_data == keys[api_key] IN
         IF ~key_data.is_active
         THEN [api_keys |-> keys, ret |-> FALSE]
         ELSE IF t1 > key_data.expires_at
         THEN [api_keys |-> [keys EXCEPT ![api_key].is_active = FALSE],
               ret |-> FALSE]
         ELSE [api_keys |-> [keys EXCEPT ![api_key].last_used = Some(t2),
                                         ![api_key].usage_count = @ + 1],
               ret |-> TRUE]

\* revoke_key that reports whether it changed anything.
revoke_key_once(keys, api_key) ==
    IF api_key \in DOMAIN keys
    THEN [api_keys |-> [keys EXCEPT ![api_key].is_active = FALSE],
          ret |-> keys[api_key].is_active]
    ELSE [api_keys |-> keys, ret |-> FALSE]

\* revoke_key that reports success without clearing the flag.
revoke_key_unwritten(keys, api_key) ==
    IF api_key \in DOMAIN keys
    THEN [api_keys |-> keys, ret |-> TRUE]
    ELSE [api_keys |-> keys, ret |-> FALSE]

revoke_key(keys, api_key) ==
    IF api_key \in DOMAIN keys
    THEN [api_keys |-> [keys EXCEPT ![api_key].is_active = FALSE], ret |-> TRUE]
    ELSE [api_keys |-> keys, ret |-> FALSE]

\* rotate_key that forgets to revoke the old key.
rotate_key_keep(keys, old_key, new_key, t1, t2, t3, t4) ==
    LET v == validate_key(keys, old_key, t1, t2) IN
    IF v.ret
    THEN LET g == generate_key(v.api_keys, new_key, Some(DefaultDays), t3, t4)
         IN  [api_keys |-> g.api_keys, ret |-> Some(g.ret)]
    ELSE [api_keys |-> v.api_keys, ret |-> None]

\* rotate_key that generates the new key before it validates the old one.
rotate_key_always(keys, old_key, new_key, t1, t2, t3, t4) ==
    LET g == generate_key(keys, new_key, Some(DefaultDays), t3, t4)
        v == validate_key(g.api_keys, old_key, t1, t2)
    IN  IF v.ret
        THEN [api_keys |-> revoke_key(v.api_keys, old_key).api_keys, ret |-> Some(g.ret)]
        ELSE [api_keys |-> v.api_keys, ret |-> None]

rotate_key(keys, old_key, new_key, t1, t2, t3, t4) ==
    LET v == validate_key(keys, old_key, t1, t2) IN
    IF v.ret
    THEN LET g == generate_key(v.api_keys, new_key, Some(DefaultDays), t3, t4)
             r == revoke_key(g.api_keys, old_key)
         IN  [api_keys |-> r.api_keys, ret |-> Some(g.ret)]
    ELSE [api_keys |-> v.api_keys, ret |-> None]

\* get_key_info returns the record (ret), or raises HTTPException (exc).
get_key_info(keys, api_key) ==
    IF api_key \in DOMAIN keys
    THEN [api_keys |-> keys, ret |-> Some(keys[api_key]), exc |-> None]
    ELSE [api_keys |-> keys, ret |-> None, exc |-> Some(404)]

\* The comprehension reads the clock once for every active entry; ts gives
\* the read made for each key.
list_active_keys(keys, ts) ==
    [api_keys |-> keys,
     ret |-> {key \in DOMAIN keys : keys[key].is_active /\ ts[key] <= keys[key].expires_at}]

\* get_api_key mutant: validate_key, then the key data rebuilt as on first use.
get_api_key_rebuild(keys, api_key, t1, t2) ==
    LET v == validate_key(keys, api_key, t1, t2) IN
    IF v.ret
    THEN [api_keys |-> [keys EXCEPT ![api_key].is_active = TRUE,
                                    ![api_key].last_used = Some(t2),
                                    ![api_key].usage_count = 1],
          ret |-> Some(api_key), exc |-> None]
    ELSE [api_keys |-> v.api_keys, ret |-> None, exc |-> Some(403)]

\* get_api_key that lets every request through.
get_api_key_open(keys, api_key, t1, t2) ==
    LET v == validate_key(keys, api_key, t1, t2) IN
    [api_keys |-> v.api_keys, ret |-> Some(api_key), exc |-> None]

\* The dependency get_api_key: returns the key (ret), or raises
\* HTTPException (exc).  It is a coroutine without an await.
get_api_key(keys, api_key, t1, t2) ==
    LET v == validate_key(keys, api_key, t1, t2) IN
    IF v.ret
    THEN [api_keys |-> v.api_keys, ret |-> Some(api_key), exc |-> None]
    ELSE [api_keys |-> v.api_keys, ret |-> None, exc |-> Some(403)]

\* ------------------------------------------------------------ history
\* The entry of a token in a store, as an optional value.
Entry(keys, k) == IF k \in DOMAIN keys THEN Some(keys[k]) ELSE None

\* The record of a call: the method, the token (or task id) it was given,
\* the expires_in_days it was given, the clock read its expiry test used,
\* what it returned (filed under the method's name, as the methods return
\* values of different kinds), and whether the token was stored and active
\* before the call.  Every action records its call, so a step that ends
\* with last.op = m is a call of m.
Call(op, key, days, t, ret) ==
    [op |-> op, key |-> key, days |-> days, t |-> t, ret |-> [o \in {op} |-> ret],
     active |-> key \in DOMAIN api_keys /\ api_keys[key].is_active]

\* What a recorded call returned.
Ret(c) == c.ret[c.op]

\* accepted after a validate_key(k) call that returned v.
Count(k, v) == IF v THEN [accepted EXCEPT ![k] = @ + 1] ELSE accepted

\* usage_count is unbounded in the program; the model leaves out the calls
\* that would count more than MaxUse uses in all.
RECURSIVE Uses(_, _)
Uses(keys, n) == IF n = 0 THEN 0
                 ELSE Uses(keys, n - 1) + (IF n \in DOMAIN keys THEN keys[n].usage_count ELSE 0)
CanCount(use) == use => Uses(api_keys, MaxKeys) < MaxUse

\* secrets.token_urlsafe(32) draws 256 random bits: the draw is a token
\* that is not in the store.  Tokens are numbered in the order of their
\* issuance (any other numbering is a renaming of this one).
Fresh == {k \in Tokens : k = Cardinality(DOMAIN api_keys) + 1}

\* ------------------------------------------------- calls of the manager
GenerateKey(key, days, t) ==
    /\ key \in Fresh
    /\ LET g == generate_key(api_keys, key, days, t, t) IN
        /\ api_keys' = g.api_keys
        /\ last' = Call("generate_key", g.ret, days, t, g.ret)
    /\ now' = t
    /\ accepted' = (key :> 0) @@ accepted
    /\ UNCHANGED << rotations, taskVars >>

ValidateKey(k, t) ==
    /\ LET v == validate_key(api_keys, k, t, t) IN
        /\ CanCount(v.ret)
        /\ api_keys' = v.api_keys
        /\ last' = Call("validate_key", k, None, t, v.ret)
        /\ accepted' = Count(k, v.ret)
    /\ now' = t
    /\ UNCHANGED << rotations, taskVars >>

\* A request to a guarded endpoint reaches its dependency.
GetApiKey(k, t) ==
    /\ LET g == get_api_key(api_keys, k, t, t) IN
        /\ CanCount(g.exc = None)
        /\ api_keys' = g.api_keys
        /\ last' = Call("get_api_key", k, None, t, g.exc)
        /\ accepted' = Count(k, g.exc = None)
    /\ now' = t
    /\ UNCHANGED << rotations, taskVars >>

RevokeKey(k) ==
    /\ LET r == revoke_key(api_keys, k) IN
        /\ api_keys' = r.api_keys
        /\ last' = Call("revoke_key", k, None, now, r.ret)
    /\ UNCHANGED << now, accepted, rotations, taskVars >>

RotateKey(old, new, t) ==
    /\ new \in Fresh
    /\ LET r == rotate_key(api_keys, old, new, t, t, t, t) IN
        /\ CanCount(r.ret # None)
        /\ api_keys' = r.api_keys
        /\ last' = Call("rotate_key", old, None, t, r.ret)
        /\ accepted' = IF r.ret = None THEN accepted
                       ELSE (r.ret[1] :> 0) @@ Count(old, TRUE)
        /\ rotations' = IF r.ret = None THEN rotations
                        ELSE rotations \cup {<< old, r.ret[1] >>}
    /\ now' = t
    /\ UNCHANGED taskVars

GetKeyInfo(k) ==
    /\ LET i == get_key_info(api_keys, k) IN
        /\ api_keys' = i.api_keys
        /\ last' = Call("get_key_info", k, None, now, i.exc)
    /\ UNCHANGED << now, accepted, rotations, taskVars >>

ListActiveKeys(t) ==
    /\ LET l == list_active_keys(api_keys, [k \in DOMAIN api_keys |-> t]) IN
        /\ api_keys' = l.api_keys
        /\ last' = Call("list_active_keys", 0, None, t, l.ret)
    /\ now' = t
    /\ UNCHANGED << accepted, rotations, taskVars >>

Init ==
    /\ api_keys = << >>
    /\ now = 0
    /\ last = [op |-> "init", key |-> 0, days |-> None, t |-> 0,
               ret |-> [o \in {"init"} |-> None],
               active |-> FALSE]
    /\ accepted = << >>
    /\ rotations = {}
    /\ tasks_store = << >>
    /\ units = << >>

Next ==
    \/ \E key \in Tokens, days \in Days, t \in now..MaxTime : GenerateKey(key, days, t)
    \/ \E k \in Presented, t \in now..MaxTime : ValidateKey(k, t)
    \/ \E k \in Presented, t \in now..MaxTime : GetApiKey(k, t)
    \/ \E k \in Presented : RevokeKey(k)
    \/ \E old \in Presented, new \in Tokens, t \in now..MaxTime : RotateKey(old, new, t)
    \/ \E k \in Presented : GetKeyInfo(k)
    \/ \E t \in now..MaxTime : ListActiveKeys(t)

Spec == Init /\ [][Next]_vars

\* ------------------------------------------------------ colliding draws
\* generate_key stores whatever secrets.token_urlsafe(32) draws, without
\* looking the token up first.  Here the draw is any token: one that is not
\* in the store (the next in the numbering) or one that is.
Drawn == Fresh \cup DOMAIN api_keys

DrawGenerateKey(key, days, t) ==
    /\ key \in Drawn
    /\ LET g == generate_key(api_keys, key, days, t, t) IN
        /\ api_keys' = g.api_keys
        /\ last' = Call("generate_key", g.ret, days, t, g.ret)
    /\ now' = t
    /\ accepted' = (key :> 0) @@ accepted
    /\ UNCHANGED << rotations, taskVars >>

DrawRotateKey(old, new, t) ==
    /\ new \in Drawn
    /\ LET r == rotate_key(api_keys, old, new, t, t, t, t) IN
        /\ CanCount(r.ret # None)
        /\ api_keys' = r.api_keys
        /\ last' = Call("rotate_key", old, None, t, r.ret)
        /\ accepted' = IF r.ret = None THEN accepted
                       ELSE (r.ret[1] :> 0) @@ Count(old, TRUE)
        /\ rotations' = IF r.ret = None THEN rotations
                        ELSE rotations \cup {<< old, r.ret[1] >>}
    /\ now' = t
    /\ UNCHANGED taskVars

NextDraw ==
    \/ \E key \in Tokens, days \in Days, t \in now..MaxTime : DrawGenerateKey(key, days, t)
    \/ \E k \in Presented, t \in now..MaxTime : ValidateKey(k, t)
    \/ \E k \in Presented : RevokeKey(k)
    \/ \E old \in Presented, new \in Tokens, t \in now..MaxTime : DrawRotateKey(old, new, t)
    \/ \E k \in Presented : GetKeyInfo(k)
    \/ \E t \in now..MaxTime : ListActiveKeys(t)

\* The key manager with draws that may collide.
SpecDraw == Init /\ [][NextDraw]_vars

\* ---------------------------------------------------- task orchestration
\* uuid.uuid4() draws 122 random bits: the draw is an id that is not in the
\* store.  Ids are numbered in the order of their creation.
TaskIds == 1..MaxTasks
FreshIds == {i \in TaskIds : i = Cardinality(DOMAIN tasks_store) + 1}

\* What load_config_from_file / default_config can hand back as the merged
\* configuration, as far as execute_task reads it.
Configs ==
    { [keep_browser_open |-> FALSE, enable_recording |-> TRUE,
       save_recording_path |-> Some("rec"), save_trace_path |-> Some("trace")],
      [keep_browser_open |-> TRUE, enable_recording |-> FALSE,
       save_recording_path |-> Some("rec"), save_trace_path |-> None] }

\* The record create_task stores.
PendingRecord(t) ==
    [status |-> "pending", created_at |-> t,
     final_result |-> None, errors |-> None,
     model_actions |-> None, model_thoughts |-> None,
     recording_path |-> None, trace_file |-> None,
     history_file |-> None, config |-> None]

\* create_task: the store after the insert, the unit handed to
\* background_tasks.add_task and the TaskResponse.  Of the task request the
\* unit keeps whether a config file is named, until line 133 has read it.
create_task(store, task_id, t, config_file) ==
    [tasks_store |-> (task_id :> PendingRecord(t)) @@ store,
     unit |-> [pc |-> "scheduled", config_file |-> Some(config_file),
               config_dict |-> None, browser |-> "unbound",
               browser_context |-> "unbound", faulted |-> FALSE],
     ret |-> [task_id |-> task_id, status |-> "pending", created_at |-> t]]

\* TaskResult(task_id=..., **record): the model has no created_at field and
\* drops it.
TaskResult(task_id, rec) ==
    [task_id |-> task_id, status |-> rec.status,
     final_result |-> rec.final_result, errors |-> rec.errors,
     model_actions |-> rec.model_actions, model_thoughts |-> rec.model_thoughts,
     recording_path |-> rec.recording_path, trace_file |-> rec.trace_file,
     history_file |-> rec.history_file, config |-> rec.config]

\* get_task_result returns the view (ret), or raises HTTPException (exc).
get_task_result(store, task_id) ==
    IF task_id \notin DOMAIN store
    THEN [ret |-> None, exc |-> Some(404)]
    ELSE [ret |-> Some(TaskResult(task_id, store[task_id])), exc |-> None]

\* list_tasks returns the views in insertion order, which is the order of
\* the ids.
list_tasks(store) == [i \in 1..Cardinality(DOMAIN store) |-> TaskResult(i, store[i])]

\* SaveResults that makes the status visible and nothing else.
SaveResults_status_first(store, task_id, cfg) ==
    [store EXCEPT ![task_id] = [@ EXCEPT !.status = "completed"]]

\* The update of the try block (lines 211-221), one dict.update call.
SaveResults(store, task_id, cfg) ==
    [store EXCEPT ![task_id] =
        [@ EXCEPT !.status = "completed",
                  !.final_result = Some("final_result"),
                  !.errors = Some("errors"),
                  !.model_actions = Some("model_actions"),
                  !.model_thoughts = Some("model_thoughts"),
                  !.recording_path = IF cfg.enable_recording
                                     THEN cfg.save_recording_path ELSE None,
                  !.trace_file = cfg.save_trace_path,
                  !.history_file = Some("history_file"),
                  !.config = Some(cfg)]]

\* MarkFailed that records the error text and forgets the status.
MarkFailed_errors_only(store, task_id, e) ==
    [store EXCEPT ![task_id] = [@ EXCEPT !.errors = Some("str(e)")]]

\* MarkFailed that fails every task that has not finished.
MarkFailed_all(store, task_id, e) ==
    [i \in DOMAIN store |->
        IF i = task_id \/ store[i].status = "pending"
        THEN [store[i] EXCEPT !.status = "failed", !.errors = Some("str(e)")]
        ELSE store[i]]

\* The update of the except block (lines 223-227); str(e) is one text.
MarkFailed(store, task_id, e) ==
    [store EXCEPT ![task_id] = [@ EXCEPT !.status = "failed", !.errors = Some("str(e)")]]

\* The finally block up to its first await (lines 228-231), entered with
\* the locals of u: where the coroutine is afterwards.  Reading a local
\* that was never assigned raises UnboundLocalError out of execute_task.
Finally(u) ==
    IF u.config_dict = None
    THEN [u EXCEPT !.pc = "raised", !.faulted = TRUE]
    ELSE IF u.config_dict[1].keep_browser_open
    THEN [u EXCEPT !.pc = "returned"]
    ELSE IF u.browser_context = "unbound"
    THEN [u EXCEPT !.pc = "raised", !.faulted = TRUE]
    ELSE [u EXCEPT !.pc = "close_context"]

\* An exception raised in the try block: except, then finally.
Except(id, u, e) ==
    /\ tasks_store' = MarkFailed(tasks_store, id, e)
    /\ units' = [units EXCEPT ![id] = Finally([u EXCEPT !.faulted = TRUE])]

\* The outcomes of the code from the start of execute_task to its first
\* await (lines 131-181).
StartOutcomes == {"load_str", "load_other", "load_raise", "llm_raise", "browser_raise", "ok"}

CreateTask(id, t, config_file) ==
    /\ id \in FreshIds
    /\ LET c == create_task(tasks_store, id, t, config_file) IN
        /\ tasks_store' = c.tasks_store
        /\ units' = (id :> c.unit) @@ units
        /\ last' = Call("create_task", id, None, t, c.ret)
    /\ now' = t
    /\ UNCHANGED keyVars

GetTaskResult(id) ==
    /\ last' = Call("get_task_result", id, None, now, get_task_result(tasks_store, id))
    /\ UNCHANGED << now, keyVars, taskVars >>

ListTasks ==
    /\ last' = Call("list_tasks", 0, None, now, [tasks |-> list_tasks(tasks_store)])
    /\ UNCHANGED << now, keyVars, taskVars >>

\* Start that goes on with the default configuration when the named config
\* file could not be loaded.
Start_fallback(id, outcome, cfg) ==
    /\ id \in DOMAIN units
    /\ units[id].pc = "scheduled"
    /\ outcome = "load_str" => units[id].config_file = Some(TRUE)
    /\ LET u == [units[id] EXCEPT !.config_file = None]
           bound == [u EXCEPT !.config_dict = Some(cfg)]
       IN  CASE outcome \in {"load_other", "load_raise"} ->
                  Except(id, u, outcome)
             [] outcome \in {"llm_raise", "browser_raise"} ->
                  Except(id, bound, outcome)
             [] outcome \in {"load_str", "ok"} ->
                  /\ units' = [units EXCEPT ![id] =
                                  [bound EXCEPT !.pc = "new_context", !.browser = "open"]]
                  /\ UNCHANGED tasks_store
    /\ last' = Call("execute_task", id, None, now, [outcome |-> outcome])
    /\ UNCHANGED << now, keyVars >>

\* execute_task from its start to await browser.new_context(...).
Start(id, outcome, cfg) ==
    /\ id \in DOMAIN units
    /\ units[id].pc = "scheduled"
    /\ outcome = "load_str" => units[id].config_file = Some(TRUE)
    /\ LET u == [units[id] EXCEPT !.config_file = None]
           bound == [u EXCEPT !.config_dict = Some(cfg)]
       IN  CASE outcome \in {"load_str", "load_other", "load_raise"} ->
                  Except(id, u, outcome)
             [] outcome \in {"llm_raise", "browser_raise"} ->
                  Except(id, bound, outcome)
             [] outcome = "ok" ->
                  /\ units' = [units EXCEPT ![id] =
                                  [bound EXCEPT !.pc = "new_context", !.browser = "open"]]
                  /\ UNCHANGED tasks_store
    /\ last' = Call("execute_task", id, None, now, [outcome |-> outcome])
    /\ UNCHANGED << now, keyVars >>

\* From the end of browser.new_context to await agent.run(...).
NewContextDone(id, outcome) ==
    /\ id \in DOMAIN units
    /\ units[id].pc = "new_context"
    /\ LET u == units[id]
           bound == [u EXCEPT !.browser_context = "open"]
       IN  CASE outcome = "context_raise" -> Except(id, u, outcome)
             [] outcome = "agent_raise" -> Except(id, bound, outcome)
             [] outcome = "ok" ->
                  /\ units' = [units EXCEPT ![id] = [bound EXCEPT !.pc = "run"]]
                  /\ UNCHANGED tasks_store
    /\ last' = Call("execute_task", id, None, now, [outcome |-> outcome])
    /\ UNCHANGED << now, keyVars >>

\* From the end of agent.run to the first await of the finally block.
RunDone(id, outcome) ==
    /\ id \in DOMAIN units
    /\ units[id].pc = "run"
    /\ LET u == units[id] IN
       CASE outcome \in {"run_raise", "transcribe_raise"} -> Except(id, u, outcome)
         [] outcome = "ok" ->
              /\ tasks_store' = SaveResults(tasks_store, id, u.config_dict[1])
              /\ units' = [units EXCEPT ![id] = Finally(u)]
    /\ last' = Call("execute_task", id, None, now, [outcome |-> outcome])
    /\ UNCHANGED << now, keyVars >>

\* CloseContextDone with a release failure recorded as the task's failure.
CloseContextDone_marks(id, raises) ==
    /\ id \in DOMAIN units
    /\ units[id].pc = "close_context"
    /\ units' = [units EXCEPT ![id] =
                    IF raises
                    THEN [@ EXCEPT !.pc = "raised", !.faulted = TRUE]
                    ELSE [@ EXCEPT !.pc = "close_browser", !.browser_context = "closed"]]
    /\ tasks_store' = IF raises THEN MarkFailed(tasks_store, id, "close_raise")
                      ELSE tasks_store
    /\ last' = Call("execute_task", id, None, now, [outcome |-> IF raises THEN "close_raise" ELSE "ok"])
    /\ UNCHANGED << now, keyVars >>

\* From the end of browser_context.close() to await browser.close().
CloseContextDone(id, raises) ==
    /\ id \in DOMAIN units
    /\ units[id].pc = "close_context"
    /\ units' = [units EXCEPT ![id] =
                    IF raises
                    THEN [@ EXCEPT !.pc = "raised", !.faulted = TRUE]
                    ELSE [@ EXCEPT !.pc = "close_browser", !.browser_context = "closed"]]
    /\ last' = Call("execute_task", id, None, now, [outcome |-> IF raises THEN "close_raise" ELSE "ok"])
    /\ UNCHANGED << now, keyVars, tasks_store >>

\* CloseBrowserDone with a release failure written into the record.
CloseBrowserDone_notes(id, raises) ==
    /\ id \in DOMAIN units
    /\ units[id].pc = "close_browser"
    /\ units' = [units EXCEPT ![id] =
                    IF raises
                    THEN [@ EXCEPT !.pc = "raised", !.faulted = TRUE]
                    ELSE [@ EXCEPT !.pc = "returned", !.browser = "closed"]]
    /\ tasks_store' = IF raises
                      THEN [tasks_store EXCEPT ![id].errors = Some("str(e)")]
                      ELSE tasks_store
    /\ last' = Call("execute_task", id, None, now, [outcome |-> IF raises THEN "close_raise" ELSE "ok"])
    /\ UNCHANGED << now, keyVars >>

\* From the end of browser.close() to the end of execute_task.
CloseBrowserDone(id, raises) ==
    /\ id \in DOMAIN units
    /\ units[id].pc = "close_browser"
    /\ units' = [units EXCEPT ![id] =
                    IF raises
                    THEN [@ EXCEPT !.pc = "raised", !.faulted = TRUE]
                    ELSE [@ EXCEPT !.pc = "returned", !.browser = "closed"]]
    /\ last' = Call("execute_task", id, None, now, [outcome |-> IF raises THEN "close_raise" ELSE "ok"])
    /\ UNCHANGED << now, keyVars, tasks_store >>

\* One step of the execution unit of task id.
Execute(id) ==
    \/ \E outcome \in StartOutcomes, cfg \in Configs : Start(id, outcome, cfg)
    \/ \E outcome \in {"context_raise", "agent_raise", "ok"} : NewContextDone(id, outcome)
    \/ \E outcome \in {"run_raise", "transcribe_raise", "ok"} : RunDone(id, outcome)
    \/ \E raises \in BOOLEAN : CloseContextDone(id, raises)
    \/ \E raises \in BOOLEAN : CloseBrowserDone(id, raises)

NextTasks ==
    \/ \E id \in TaskIds, config_file \in BOOLEAN : CreateTask(id, now, config_file)
    \/ \E id \in 0..MaxTasks : GetTaskResult(id)
    \/ ListTasks
    \/ \E id \in TaskIds : Execute(id)

\* The task layer on its own; no step of it depends on the clock, which
\* stands still here.
SpecTasks == Init /\ [][NextTasks]_vars

\* The event loop does not leave the scheduled units waiting for ever, and
\* every call a unit awaits returns or raises: while some unit has a step
\* to take, a step of some unit is taken.  (A unit ends after at most five
\* steps, so every unit gets its turn.)
FairSpecTasks == SpecTasks /\ WF_vars(\E id \in TaskIds : Execute(id))

\* ------------------------------------------------------------ endpoints
\* The handlers of the key endpoints, run after their dependency has
\* returned: the store after the call, the HTTP status of the answer and
\* the key the answer carries.  An HTTPException raised inside a try block
\* with `except Exception` is caught there (HTTPException is a subclass of
\* Exception) and answered by the handler of that except clause.

\* The values of expires_in_days requests pass: none (the default of 30
\* days) and 0.
ApiDays == {None, Some(0)}

\* POST /api-keys/generate; it has no dependency.
generate_api_key(keys, key, expires_in_days, t1, t2) ==
    LET g == generate_key(keys, key, expires_in_days, t1, t2)
        i == get_key_info(g.api_keys, g.ret)
        raised == IF i.exc # None THEN i.exc
                  ELSE IF i.ret = None THEN Some(500) ELSE None
    IN  [api_keys |-> i.api_keys,
         status |-> IF raised # None THEN 500 ELSE 200,
         key |-> IF raised # None THEN None ELSE Some(g.ret)]

\* POST /api-keys/rotate.
rotate_api_key(keys, current_api_key, new_key, t1, t2, t3, t4) ==
    LET r == rotate_key(keys, current_api_key, new_key, t1, t2, t3, t4)
        i == IF r.ret = None THEN [exc |-> None, ret |-> None]
             ELSE get_key_info(r.api_keys, r.ret[1])
        raised == IF r.ret = None THEN Some(400)
                  ELSE IF i.exc # None THEN i.exc
                  ELSE IF i.ret = None THEN Some(500) ELSE None
    IN  [api_keys |-> r.api_keys,
         status |-> IF raised # None THEN 500 ELSE 200,
         key |-> IF raised # None THEN None ELSE r.ret]

\* POST /api-keys/revoke.
revoke_api_key(keys, api_key) ==
    LET r == revoke_key(keys, api_key) IN
    [api_keys |-> r.api_keys, status |-> IF r.ret THEN 200 ELSE 400, key |-> None]

\* A request that its dependency refused: get_api_key is all of the
\* service's code that ran, and its HTTPException is the answer.
Refused(k, t, g) ==
    /\ api_keys' = g.api_keys
    /\ last' = Call("get_api_key", k, None, t, g.exc)
    /\ now' = t
    /\ UNCHANGED << accepted, rotations, taskVars >>

\* The model leaves out the requests that would count more than MaxUse
\* uses in all.
InBudget(keys) == Uses(keys, MaxKeys) <= MaxUse

GenerateApiKeyReq(key, days, t) ==
    /\ key \in Fresh
    /\ LET h == generate_api_key(api_keys, key, days, t, t) IN
        /\ api_keys' = h.api_keys
        /\ last' = Call("generate_api_key", key, days, t, [status |-> h.status, key |-> h.key])
    /\ now' = t
    /\ accepted' = (key :> 0) @@ accepted
    /\ UNCHANGED << rotations, taskVars >>

\* The dependency reads the clock at t1, rotate_key afterwards at t2.  (The
\* other requests are given one read for both, as the calls of the manager
\* are.)
RotateApiKeyReq(k, new, t1, t2) ==
    /\ new \in Fresh
    /\ LET g == get_api_key(api_keys, k, t1, t1) IN
       IF g.exc # None THEN Refused(k, t1, g)
       ELSE LET h == rotate_api_key(g.api_keys, k, new, t2, t2, t2, t2) IN
            /\ InBudget(h.api_keys)
            /\ api_keys' = h.api_keys
            /\ last' = Call("rotate_api_key", k, None, t1, [status |-> h.status, key |-> h.key])
            /\ now' = t2
            /\ accepted' = IF new \in DOMAIN h.api_keys
                           THEN (new :> 0) @@ [accepted EXCEPT ![k] = @ + 2]
                           ELSE [accepted EXCEPT ![k] = @ + 1]
            /\ rotations' = IF new \in DOMAIN h.api_keys
                            THEN rotations \cup {<< k, new >>} ELSE rotations
            /\ UNCHANGED taskVars

RevokeApiKeyReq(k, t) ==
    LET g == get_api_key(api_keys, k, t, t) IN
    IF g.exc # None THEN Refused(k, t, g)
    ELSE LET h == revoke_api_key(g.api_keys, k) IN
         /\ InBudget(h.api_keys)
         /\ api_keys' = h.api_keys
         /\ last' = Call("revoke_api_key", k, None, t, [status |-> h.status])
         /\ now' = t
         /\ accepted' = Count(k, TRUE)
         /\ UNCHANGED << rotations, taskVars >>

\* GET /api-keys/active.
ListActiveKeysReq(k, t) ==
    LET g == get_api_key(api_keys, k, t, t) IN
    IF g.exc # None THEN Refused(k, t, g)
    ELSE LET l == list_active_keys(g.api_keys, [x \in DOMAIN g.api_keys |-> t]) IN
         /\ InBudget(l.api_keys)
         /\ api_keys' = l.api_keys
         /\ last' = Call("list_active_keys", k, None, t, [status |-> 200, keys |-> l.ret])
         /\ now' = t
         /\ accepted' = Count(k, TRUE)
         /\ UNCHANGED << rotations, taskVars >>

\* POST /tasks.
CreateTaskReq(k, id, t, config_file) ==
    /\ id \in FreshIds
    /\ LET g == get_api_key(api_keys, k, t, t) IN
       IF g.exc # None THEN Refused(k, t, g)
       ELSE LET c == create_task(tasks_store, id, t, config_file) IN
            /\ InBudget(g.api_keys)
            /\ api_keys' = g.api_keys
            /\ tasks_store' = c.tasks_store
            /\ units' = (id :> c.unit) @@ units
            /\ last' = Call("create_task", k, None, t, [status |-> 200, task_id |-> id])
            /\ now' = t
            /\ accepted' = Count(k, TRUE)
            /\ UNCHANGED rotations

\* GET /tasks/{task_id}.
GetTaskResultReq(k, id, t) ==
    LET g == get_api_key(api_keys, k, t, t) IN
    IF g.exc # None THEN Refused(k, t, g)
    ELSE LET r == get_task_result(tasks_store, id) IN
         /\ InBudget(g.api_keys)
         /\ api_keys' = g.api_keys
         /\ last' = Call("get_task_result", k, None, t,
                         [status |-> IF r.exc # None THEN r.exc[1] ELSE 200, result |-> r.ret])
         /\ now' = t
         /\ accepted' = Count(k, TRUE)
         /\ UNCHANGED << rotations, taskVars >>

\* GET /tasks.
ListTasksReq(k, t) ==
    LET g == get_api_key(api_keys, k, t, t) IN
    IF g.exc # None THEN Refused(k, t, g)
    ELSE /\ InBudget(g.api_keys)
         /\ api_keys' = g.api_keys
         /\ last' = Call("list_tasks", k, None, t, [status |-> 200, tasks |-> list_tasks(tasks_store)])
         /\ now' = t
         /\ accepted' = Count(k, TRUE)
         /\ UNCHANGED << rotations, taskVars >>

\* The service as its clients drive it: the requests to the endpoints.  No
\* request waits for a unit that POST /tasks scheduled, and no unit reads
\* the key store; the steps of the units are those of SpecTasks.
NextApi ==
    \/ \E key \in Tokens, days \in ApiDays, t \in now..MaxTime : GenerateApiKeyReq(key, days, t)
    \/ \E k \in Presented, new \in Tokens, t1 \in now..MaxTime :
          \E t2 \in t1..MaxTime : RotateApiKeyReq(k, new, t1, t2)
    \/ \E k \in Presented, t \in now..MaxTime : RevokeApiKeyReq(k, t)
    \/ \E k \in Presented, t \in now..MaxTime : ListActiveKeysReq(k, t)
    \/ \E k \in Presented, id \in TaskIds, t \in now..MaxTime :
          CreateTaskReq(k, id, t, FALSE)
    \/ \E k \in Presented, id \in 0..MaxTasks, t \in now..MaxTime : GetTaskResultReq(k, id, t)
    \/ \E k \in Presented, t \in now..MaxTime : ListTasksReq(k, t)

SpecApi == Init /\ [][NextApi]_vars

\* ------------------------------------------------------------- claims
\* A credential is valid at time t: it exists, is active and t <= expires_at.
ValidAt(keys, k, t) ==
    /\ k \in DOMAIN keys
    /\ keys[k].is_active
    /\ t <= keys[k].expires_at

\* C1: validate_key(token) returns true if and only if, at the time now it
\* reads, the token is in the store, is active and now <= expires_at; so it
\* returns false at every time strictly after expires_at.
C1_ValidateIffValid ==
    [][last'.op = "validate_key" =>
          Ret(last') = ValidAt(api_keys, last'.key, last'.t)]_vars

\* A call of validate_key has returned false for a credential that was
\* used before, was still active (never revoked) and is past its expiry.
C1_Witness ==
    /\ last.op = "validate_key"
    /\ last.key \in DOMAIN api_keys
    /\ last.active
    /\ accepted[last.key] > 0
    /\ last.t > api_keys[last.key].expires_at
    /\ Ret(last) = FALSE

\* C2: a validate_key call that directly follows generate_key with
\* expires_in_days <= 0 returns false, also when no time has passed.
C2_NonPositiveDaysExpired ==
    [][(/\ last.op = "generate_key"
        /\ last.days # None
        /\ last.days[1] <= 0
        /\ last'.op = "validate_key"
        /\ last'.key = Ret(last)) => Ret(last') = FALSE]_vars

\* C3: rotate_key(old) on a valid old returns a new token, different from
\* old; right after it validate_key(old) is false, validate_key(new) is
\* true and the store holds exactly one credential more.
C3_RotateValid ==
    [][(last'.op = "rotate_key" /\ ValidAt(api_keys, last'.key, last'.t)) =>
          /\ Ret(last') # None
          /\ Ret(last')[1] # last'.key
          /\ validate_key(api_keys', last'.key, now', now').ret = FALSE
          /\ validate_key(api_keys', Ret(last')[1], now', now').ret = TRUE
          /\ Cardinality(DOMAIN api_keys') = Cardinality(DOMAIN api_keys) + 1]_vars

\* A rotation has just returned a new token.
C3_Witness ==
    /\ last.op = "rotate_key"
    /\ Ret(last) # None
    /\ Ret(last)[1] \in DOMAIN api_keys
    /\ last.key \in DOMAIN api_keys

\* C4: in no state that another operation can observe are the old token of
\* a rotation and the token that rotation issued both valid, now or at any
\* later time: rotate_key issues the new key and revokes the old one in
\* one step of the event loop.
C4_NeverBothValid ==
    \A p \in rotations : \A t \in now..MaxTime :
       ~(ValidAt(api_keys, p[1], t) /\ ValidAt(api_keys, p[2], t))

\* list_active_keys has run after a rotation and has seen the new token
\* without the old one.
C4_Witness ==
    /\ last.op = "list_active_keys"
    /\ \E p \in rotations : p[2] \in Ret(last) /\ p[1] \notin Ret(last)

\* C5: rotate_key(old) on an unknown, inactive or expired old returns None
\* and the set of stored tokens is the same before and after the call.
C5_RotateInvalid ==
    [][(last'.op = "rotate_key" /\ ~ValidAt(api_keys, last'.key, last'.t)) =>
          /\ Ret(last') = None
          /\ DOMAIN api_keys' = DOMAIN api_keys]_vars

\* A rotation of a stored, still active but expired token has returned None.
C5_Witness ==
    /\ last.op = "rotate_key"
    /\ Ret(last) = None
    /\ last.key \in DOMAIN api_keys
    /\ last.active
    /\ last.t > api_keys[last.key].expires_at

\* C6: revoke_key returns true for every stored token, on the first call
\* and on every later one, and revoking a revoked credential changes
\* nothing; for a token that was never stored it returns false and the
\* store is unchanged.
C6_RevokeIdempotent ==
    [][last'.op = "revoke_key" =>
          LET k == last'.key IN
          /\ Ret(last') = (k \in DOMAIN api_keys)
          /\ k \notin DOMAIN api_keys => api_keys' = api_keys
          /\ (k \in DOMAIN api_keys /\ ~api_keys[k].is_active) => api_keys' = api_keys
          /\ revoke_key(api_keys', k) = [api_keys |-> api_keys', ret |-> Ret(last')]]_vars

\* revoke_key has returned true for a token that a rotation had revoked
\* before (every recorded rotation is an earlier step).
C6_Witness ==
    /\ last.op = "revoke_key"
    /\ Ret(last) = TRUE
    /\ ~last.active
    /\ \E p \in rotations : p[1] = last.key

\* C7: usage_count equals the number of validate_key calls on the token
\* that returned true since issuance; a call that returns true adds one
\* and sets last_used, a call that returns false leaves usage_count and
\* last_used of every credential unchanged.
C7_UsageCount ==
    /\ [](\A k \in DOMAIN api_keys : api_keys[k].usage_count = accepted[k])
    /\ [][last'.op = "validate_key" =>
            \A k \in DOMAIN api_keys :
               IF Ret(last') /\ k = last'.key
               THEN /\ api_keys'[k].usage_count = api_keys[k].usage_count + 1
                    /\ api_keys'[k].last_used = Some(now')
               ELSE /\ api_keys'[k].usage_count = api_keys[k].usage_count
                    /\ api_keys'[k].last_used = api_keys[k].last_used]_vars

\* A credential used twice has just been refused, its count still two.
C7_Witness ==
    /\ last.op = "validate_key"
    /\ Ret(last) = FALSE
    /\ last.key \in DOMAIN api_keys
    /\ api_keys[last.key].usage_count = 2
    /\ api_keys[last.key].last_used # None

\* C8: under every interleaving of the requests' steps, each request that
\* get_api_key accepts adds exactly one to the usage_count of its token, no
\* step of any operation takes a counted use away, and no validation makes
\* an inactive (revoked) credential active again.
C8_NoLostUpdate ==
    [][/\ (last'.op = "get_api_key" /\ Ret(last') = None) =>
            /\ last'.key \in DOMAIN api_keys
            /\ api_keys'[last'.key].usage_count = api_keys[last'.key].usage_count + 1
       /\ \A k \in DOMAIN api_keys :
            /\ k \in DOMAIN api_keys'
            /\ api_keys'[k].usage_count >= api_keys[k].usage_count
            /\ (last'.op \in {"get_api_key", "validate_key"} /\ ~api_keys[k].is_active) =>
                  ~api_keys'[k].is_active]_vars

\* get_api_key has accepted a request for a token that was accepted before.
C8_Witness ==
    /\ last.op = "get_api_key"
    /\ Ret(last) = None
    /\ api_keys[last.key].usage_count = 2
    /\ \E k \in DOMAIN api_keys : ~api_keys[k].is_active

Terminal == {"completed", "failed"}

\* C9: a task record is created with status pending, its status changes at
\* most once, from pending to completed or failed, and no step changes a
\* completed or failed status.
C9_StatusMachine ==
    [][\A id \in TaskIds :
          /\ (id \notin DOMAIN tasks_store /\ id \in DOMAIN tasks_store') =>
                 tasks_store'[id].status = "pending"
          /\ id \in DOMAIN tasks_store =>
                 /\ id \in DOMAIN tasks_store'
                 /\ \/ tasks_store'[id].status = tasks_store[id].status
                    \/ /\ tasks_store[id].status = "pending"
                       /\ tasks_store'[id].status \in Terminal]_vars

\* A unit has recorded completed and then failed in its finally block.
C9_Witness ==
    \E id \in DOMAIN units :
       /\ tasks_store[id].status = "completed"
       /\ units[id].pc = "raised"

\* The record of a new task reads pending right after create_task.
CreatedPending ==
    [][\A id \in TaskIds :
          (id \notin DOMAIN tasks_store /\ id \in DOMAIN tasks_store') =>
             /\ last'.op = "create_task"
             /\ Ret(last').task_id = id
             /\ get_task_result(tasks_store', id).ret # None
             /\ get_task_result(tasks_store', id).ret[1].status = "pending"]_vars

\* Every pending record becomes completed or failed.
EventuallyTerminal ==
    \A id \in TaskIds :
       (id \in DOMAIN tasks_store /\ tasks_store[id].status = "pending")
          ~> (id \in DOMAIN tasks_store /\ tasks_store[id].status \in Terminal)

\* C10 as stated: a new task reads pending, its status eventually becomes
\* completed or failed, and any fault raised anywhere inside execute_task
\* ends with status failed.
C10_AnyFaultFails ==
    /\ CreatedPending
    /\ EventuallyTerminal
    /\ [](\A id \in DOMAIN units :
             units[id].faulted => tasks_store[id].status = "failed")

\* C10 as amended: a new task reads pending, its status eventually becomes
\* completed or failed, the first fault of a unit whose record is still
\* pending sets failed, a fault raised after the outcome was recorded
\* leaves the status as recorded, and a unit that has ended leaves no
\* pending record.
C10_FaultBeforeOutcomeFails ==
    /\ CreatedPending
    /\ EventuallyTerminal
    /\ [][\A id \in DOMAIN units :
             (units'[id].faulted /\ ~units[id].faulted) =>
                tasks_store'[id].status =
                   IF tasks_store[id].status = "pending"
                   THEN "failed" ELSE tasks_store[id].status]_vars
    /\ [](\A id \in DOMAIN units :
             units[id].pc \in {"returned", "raised"} =>
                tasks_store[id].status \in Terminal)

\* A unit whose configuration could not be loaded has ended: failed, by
\* the except block, before the finally block raised.
C10_Witness ==
    \E id \in DOMAIN units :
       /\ units[id].pc = "raised"
       /\ units[id].config_dict = None
       /\ tasks_store[id].status = "failed"

\* The outcomes of Start in which configuration resolution fails: the
\* loader hands back an error text, something that is not a mapping, or
\* raises.
LoadFailures == {"load_str", "load_other", "load_raise"}

\* A failed record with nothing but the error text written.
FailedOnly(rec) ==
    /\ rec.status = "failed"
    /\ rec.errors # None
    /\ rec.final_result = None
    /\ rec.model_actions = None
    /\ rec.model_thoughts = None
    /\ rec.recording_path = None
    /\ rec.trace_file = None
    /\ rec.history_file = None
    /\ rec.config = None

\* C11: when configuration resolution fails in execute_task, the unit goes
\* on with no configuration at all (no default in place of the named
\* file) and ends, and the task record is and stays failed with errors
\* set and every result field and config still null.
C11_ConfigFailureFails ==
    /\ [][\A id \in DOMAIN units :
             (/\ last'.op = "execute_task"
              /\ last'.key = id
              /\ units[id].pc = "scheduled"
              /\ Ret(last').outcome \in LoadFailures) =>
                 /\ units'[id].config_dict = None
                 /\ units'[id].pc \in {"returned", "raised"}
                 /\ FailedOnly(tasks_store'[id])]_vars
    /\ [](\A id \in DOMAIN units :
             (units[id].pc # "scheduled" /\ units[id].config_dict = None) =>
                FailedOnly(tasks_store[id]))

\* The named config file of a task could not be loaded, and its record
\* reads failed while another task, submitted later, is still pending.
C11_Witness ==
    /\ last.op = "execute_task"
    /\ Ret(last).outcome = "load_str"
    /\ FailedOnly(tasks_store[last.key])
    /\ units[last.key].config_dict = None
    /\ \E id \in DOMAIN tasks_store : id > last.key /\ tasks_store[id].status = "pending"

\* The handlers behind the dependency get_api_key.
GuardedOps ==
    {"rotate_api_key", "revoke_api_key", "list_active_keys",
     "create_task", "get_task_result", "list_tasks"}

\* C12: the handler of a guarded endpoint runs only for a request whose
\* token validate_key accepted; a request whose token fails is answered
\* by the dependency (403) and has no effect of the guarded operation: the
\* task store and the scheduled units are unchanged, no credential is
\* added, none that was valid stops being valid, and the only write is
\* validate_key clearing is_active on the presented, expired credential.
C12_RejectedBeforeEffect ==
    [][/\ last'.op \in GuardedOps => ValidAt(api_keys, last'.key, last'.t)
       /\ (last'.op = "get_api_key" /\ Ret(last') # None) =>
            /\ ~ValidAt(api_keys, last'.key, last'.t)
            /\ tasks_store' = tasks_store
            /\ units' = units
            /\ DOMAIN api_keys' = DOMAIN api_keys
            /\ \A k \in DOMAIN api_keys :
                  \/ api_keys'[k] = api_keys[k]
                  \/ /\ k = last'.key
                     /\ last'.t > api_keys[k].expires_at
                     /\ api_keys'[k] = [api_keys[k] EXCEPT !.is_active = FALSE]
            /\ \A k \in DOMAIN api_keys : \A t \in last'.t..MaxTime :
                  ValidAt(api_keys, k, t) => ValidAt(api_keys', k, t)]_vars

\* A request presenting a stored, never revoked but expired token has been
\* refused while the store holds a task and a valid credential.
C12_Witness ==
    /\ last.op = "get_api_key"
    /\ Ret(last) = Some(403)
    /\ last.key \in DOMAIN api_keys
    /\ last.active
    /\ DOMAIN tasks_store # {}
    /\ \E k \in DOMAIN api_keys : ValidAt(api_keys, k, now)

\* C15: whenever rotate_api_key runs and the rotation yields no key
\* (rotate_key returns None), the answer has status 400.
C15_RotateFailureIs400 ==
    [][(last'.op = "rotate_api_key" /\ Ret(last').key = None) =>
          Ret(last').status = 400]_vars

\* What a reader may rely on in a record or view r with a terminal status.
Whole(r) ==
    /\ r.status = "completed" =>
          /\ r.final_result # None
          /\ r.errors # None
          /\ r.model_actions # None
          /\ r.model_thoughts # None
          /\ r.history_file # None
          /\ r.config # None
    /\ r.status = "failed" => r.errors # None

\* C13: no reader sees a torn task record: in every state between two
\* steps, and in every answer of get_task_result and list_tasks, a record
\* that reads completed has final_result, errors, model_actions,
\* model_thoughts, history_file and config written, and one that reads
\* failed has errors written; the step that makes a status terminal writes
\* the whole record.
C13_NoTornRecord ==
    /\ [](\A id \in DOMAIN tasks_store : Whole(tasks_store[id]))
    /\ [][/\ (last'.op = "get_task_result" /\ Ret(last').ret # None) =>
               Whole(Ret(last').ret[1])
          /\ last'.op = "list_tasks" =>
               \A i \in DOMAIN Ret(last').tasks : Whole(Ret(last').tasks[i])
          /\ \A id \in DOMAIN tasks_store :
               tasks_store'[id].status # tasks_store[id].status =>
                  Whole(tasks_store'[id])]_vars

\* get_task_result has answered completed for one task while the unit of
\* another is suspended in agent.run.
C13_Witness ==
    /\ last.op = "get_task_result"
    /\ Ret(last).ret # None
    /\ Ret(last).ret[1].status = "completed"
    /\ Ret(last).ret[1].config # None
    /\ \E id \in DOMAIN units : units[id].pc = "run"

\* C14: every submission adds exactly one record under an id that was not
\* in the store and leaves the records of all other tasks as they are, no
\* record is ever removed, list_tasks shows one view per record, a step of
\* one execution unit changes neither the record nor the unit of another
\* task, and every record reaches a terminal status of its own and keeps
\* it.
C14_IndependentTasks ==
    /\ [][/\ DOMAIN tasks_store \subseteq DOMAIN tasks_store'
          /\ \A id \in DOMAIN tasks_store' \ DOMAIN tasks_store :
                /\ last'.op = "create_task"
                /\ Ret(last').task_id = id
                /\ DOMAIN tasks_store' = DOMAIN tasks_store \cup {id}
                /\ \A j \in DOMAIN tasks_store : tasks_store'[j] = tasks_store[j]
          /\ last'.op = "list_tasks" =>
                /\ Len(Ret(last').tasks) = Cardinality(DOMAIN tasks_store)
                /\ \A i, j \in DOMAIN Ret(last').tasks :
                      Ret(last').tasks[i].task_id = Ret(last').tasks[j].task_id => i = j
          /\ last'.op = "execute_task" =>
                \A j \in DOMAIN tasks_store \ {last'.key} :
                   /\ tasks_store'[j] = tasks_store[j]
                   /\ units'[j] = units[j]
          /\ \A id \in DOMAIN tasks_store :
                tasks_store[id].status \in Terminal =>
                   tasks_store'[id].status = tasks_store[id].status]_vars
    /\ EventuallyTerminal

\* Two tasks were submitted before either unit started; one has ended
\* completed, the other failed.
C14_Witness ==
    /\ DOMAIN tasks_store = {1, 2}
    /\ tasks_store[1].created_at = tasks_store[2].created_at
    /\ {tasks_store[1].status, tasks_store[2].status} = Terminal
    /\ \A id \in {1, 2} : units[id].pc \in {"returned", "raised"}

\* C16: no exception escapes execute_task: no unit ever ends by raising.
C16_NothingEscapes ==
    \A id \in DOMAIN units : units[id].pc # "raised"

\* C17: when a unit has ended and its merged configuration does not set
\* keep_browser_open, the browser and the browser context it acquired are
\* released: none is left open.
C17_AllReleased ==
    \A id \in DOMAIN units :
       (/\ units[id].pc \in {"returned", "raised"}
        /\ units[id].config_dict # None
        /\ ~units[id].config_dict[1].keep_browser_open) =>
          /\ units[id].browser # "open"
          /\ units[id].browser_context # "open"

\* C18: a step of the finally block, and a failure of a release in it
\* above all, leaves the task store as it is: every field of every
\* record is the same after the step as before it.
C18_ReleaseFailureKeepsRecord ==
    [][\A id \in DOMAIN units :
          (/\ units[id].pc \in {"close_context", "close_browser"}
           /\ units'[id] # units[id]) =>
             tasks_store' = tasks_store]_vars

\* browser.close() has just raised in the finally block of a task whose
\* record reads completed.
C18_Witness ==
    /\ last.op = "execute_task"
    /\ Ret(last).outcome = "close_raise"
    /\ units[last.key].pc = "raised"
    /\ units[last.key].browser_context = "closed"
    /\ tasks_store[last.key].status = "completed"

\* C19: the token generate_key returns was not in the store before the
\* call, and the call leaves every credential that was stored as it was.
C19_NoCollision ==
    [][last'.op = "generate_key" =>
          /\ Ret(last') \notin DOMAIN api_keys
          /\ \A k \in DOMAIN api_keys : api_keys'[k] = api_keys[k]]_vars

\* C20: a credential whose is_active flag is false stays stored and
\* inactive, keeps its created_at and expires_at, and is refused by
\* validate_key, whatever call is made next.
C20_DeactivationPermanent ==
    [][\A k \in DOMAIN api_keys :
          ~api_keys[k].is_active =>
             /\ k \in DOMAIN api_keys'
             /\ ~api_keys'[k].is_active
             /\ api_keys'[k].created_at = api_keys[k].created_at
             /\ api_keys'[k].expires_at = api_keys[k].expires_at
             /\ (last'.op = "validate_key" /\ last'.key = k) => Ret(last') = FALSE]_vars

====
